---- MODULE Spec2Model ----
(***************************************************************************)
(* Verification model of the PDF signature checker (verify_pdf.py):        *)
(*   - compute_sha256_range, the ByteRange digest (pure function),         *)
(*   - format_fp, the fingerprint renderer (pure function),                *)
(*   - try_validation, the call-shape probing loop,                        *)
(*   - main, the verification run and the lines it appends to the log.     *)
(***************************************************************************)
EXTENDS Integers, Sequences, FiniteSets, TLC

VARIABLES
    pc,          \* position of main()
    log,         \* lines appended by log(), in order: records [tag, val]
    trust_ctx,   \* "unset", "roots", "fetch_only" or "None"
    doc,         \* what PDF_PATH holds: "unknown", "missing", "unreadable", "ok"
    signatures,  \* list(reader.embedded_signatures)
    br_bound,    \* whether the local name br has been assigned
    br,          \* value of br: <<>> (None / falsy) or a 4-tuple
    attempt,     \* index into attempts of try_validation (1-based)
    calls,       \* call shapes handed to validate_pdf_signature so far
    outcomes,    \* what validate_pdf_signature did on each of those calls
    status,      \* <<>> is None, <<s>> is the status object s
    err,         \* "None" or the error message of try_validation
    d_bytes,     \* compute_sha256_range: argument pdf_bytes
    d_range,     \* compute_sha256_range: argument byte_range
    d_in,        \* the two arguments as they were handed in
    d_out,       \* results of the calls made so far
    fp_in,       \* format_fp: argument fp
    fp_out       \* <<>> before the call, <<rendering>> after it

vars == << pc, log, trust_ctx, doc, signatures, br_bound, br, attempt, calls,
           outcomes, status, err, d_bytes, d_range, d_in, d_out, fp_in, fp_out >>

mainVars == << pc, log, trust_ctx, doc, signatures, br_bound, br, attempt,
               calls, outcomes, status, err >>
digestVars == << d_bytes, d_range, d_in, d_out >>
fpVars == << fp_in, fp_out >>

----------------------------------------------------------------------------
(* Bounds *)

MaxLen == 3
MaxCalls == 2
MaxSigs == 2
MaxFpLen == 3

Byte == 0 .. 1

SeqsUpTo(S, n) == UNION { [1 .. k -> S] : k \in 0 .. n }

Min(a, b) == IF a < b THEN a ELSE b
Max(a, b) == IF a > b THEN a ELSE b

----------------------------------------------------------------------------
(* compute_sha256_range *)

\* Python's s[start:stop] on a bytes object: negative indexes count from the
\* end, both ends are clamped to [0, len], an empty slice when stop <= start.
PyIndex(n, i) == IF i < 0 THEN Max(i + n, 0) ELSE Min(i, n)

PySlice(s, start, stop) ==
    LET lo == PyIndex(Len(s), start)
        hi == PyIndex(Len(s), stop)
    IN  IF hi <= lo THEN << >> ELSE SubSeq(s, lo + 1, hi)

\* hashlib.sha256(data).hexdigest(): a collision-free encoding of data, so
\* that two digests agree exactly when the digested bytes agree.
RECURSIVE Sha256Hex(_)
Sha256Hex(data) ==
    IF data = << >> THEN 1
    ELSE Sha256Hex(SubSeq(data, 1, Len(data) - 1)) * (Cardinality(Byte) + 1)
         + data[Len(data)] + 1

Digest(h) == [ok |-> TRUE, digest |-> h, error |-> "None"]

MutSha256Range(pdf_bytes, byte_range) ==
    LET b == byte_range
        data == PySlice(pdf_bytes, b[1], b[2])
                \o PySlice(pdf_bytes, b[3], b[3] + b[4])
    IN  Digest(Sha256Hex(data))

compute_sha256_range(pdf_bytes, byte_range) ==
    LET b == byte_range
        data == PySlice(pdf_bytes, b[1], b[1] + b[2])
                \o PySlice(pdf_bytes, b[3], b[3] + b[4])
    IN  Digest(Sha256Hex(data))

DigestIdle ==
    /\ d_bytes = << >>
    /\ d_range = << 0, 0, 0, 0 >>
    /\ d_in = << d_bytes, d_range >>
    /\ d_out = << >>

DigestInit ==
    /\ d_bytes \in SeqsUpTo(Byte, MaxLen)
    /\ d_range \in [1 .. 4 -> -1 .. MaxLen + 1]
    /\ d_in = << d_bytes, d_range >>
    /\ d_out = << >>

\* One call compute_sha256_range(d_bytes, d_range); list(byte_range) copies,
\* bytes are immutable: neither argument is written.
DigestCall ==
    /\ Len(d_out) < MaxCalls
    /\ d_out' = Append(d_out, compute_sha256_range(d_bytes, d_range))
    /\ UNCHANGED << d_bytes, d_range, d_in >>
    /\ UNCHANGED << mainVars, fpVars >>

----------------------------------------------------------------------------
(* format_fp *)

HexDigits == << "0", "1", "2", "3", "4", "5", "6", "7",
                "8", "9", "a", "b", "c", "d", "e", "f" >>
LowerLetters == << "a", "b", "c", "d", "e", "f", "g", "h", "i", "j", "k", "l", "m",
                   "n", "o", "p", "q", "r", "s", "t", "u", "v", "w", "x", "y", "z" >>
UpperLetters == << "A", "B", "C", "D", "E", "F", "G", "H", "I", "J", "K", "L", "M",
                   "N", "O", "P", "Q", "R", "S", "T", "U", "V", "W", "X", "Y", "Z" >>

\* The characters the pattern [^0-9A-Fa-f] leaves in place.
HexChars == { HexDigits[i] : i \in 1 .. 16 } \cup { UpperLetters[i] : i \in 1 .. 6 }

\* str.upper() on one character.
UpperChar(c) ==
    IF \E i \in 1 .. 26 : LowerLetters[i] = c
    THEN UpperLetters[CHOOSE i \in 1 .. 26 : LowerLetters[i] = c]
    ELSE c

UpperStr(s) == [i \in 1 .. Len(s) |-> UpperChar(s[i])]

\* bytes.hex(): two lowercase hex digits per byte.
RECURSIVE BytesHex(_)
BytesHex(bs) ==
    IF bs = << >> THEN << >>
    ELSE << HexDigits[(bs[1] \div 16) + 1], HexDigits[(bs[1] % 16) + 1] >>
         \o BytesHex(Tail(bs))

\* re.sub(r"[^0-9A-Fa-f]", "", s)
RECURSIVE StripNonHex(_)
StripNonHex(s) ==
    IF s = << >> THEN << >>
    ELSE (IF s[1] \in HexChars THEN << s[1] >> ELSE << >>) \o StripNonHex(Tail(s))

\* " ".join(h[i:i+2] for i in range(0, len(h), 2))
RECURSIVE JoinPairs(_)
JoinPairs(h) ==
    IF Len(h) <= 2 THEN h
    ELSE SubSeq(h, 1, 2) \o << " " >> \o JoinPairs(SubSeq(h, 3, Len(h)))

\* fp is a record [kind, bytes, str]: kind "None" (fp is None), "bytes"
\* (bytes or bytearray, in field bytes) or "str" (anything else, str(fp) in
\* field str).  Strings are sequences of one-character strings.
format_fp(fp) ==
    IF fp.kind = "None" THEN << "N", "/", "A" >>
    ELSE IF fp.kind = "bytes" THEN JoinPairs(UpperStr(BytesHex(fp.bytes)))
    ELSE LET s == fp.str
             cleaned == UpperStr(StripNonHex(s))
         IN  IF cleaned = << >> THEN s
             ELSE JoinPairs(s)    \* line 46: h = s replaces the cleaned text

FpBytes == { 10, 160, 159 }
FpChars == { "a", "F", "0", "9", ":", " " }

FpNone == [kind |-> "None", bytes |-> << >>, str |-> << >>]

FpInputs ==
    { FpNone }
    \cup { [kind |-> "bytes", bytes |-> b, str |-> << >>] :
             b \in SeqsUpTo(FpBytes, MaxFpLen) }
    \cup { [kind |-> "str", bytes |-> << >>, str |-> s] :
             s \in SeqsUpTo(FpChars, MaxFpLen + 1) }

FpIdle ==
    /\ fp_in = FpNone
    /\ fp_out = << >>

FpInit ==
    /\ fp_in \in FpInputs
    /\ fp_out = << >>

FormatCall ==
    /\ fp_out = << >>
    /\ fp_out' = << format_fp(fp_in) >>
    /\ UNCHANGED fp_in
    /\ UNCHANGED << mainVars, digestVars >>

----------------------------------------------------------------------------
(* main and try_validation *)

L(tag) == [tag |-> tag, val |-> 0]
LV(tag, v) == [tag |-> tag, val |-> v]

HasLog(tag) == \E i \in 1 .. Len(log) : log[i].tag = tag
CountLog(tag) == Cardinality({ i \in 1 .. Len(log) : log[i].tag = tag })
\* Position of the first line with this tag, 0 when there is none.
FirstLog(tag) ==
    IF HasLog(tag)
    THEN CHOOSE i \in 1 .. Len(log) :
             /\ log[i].tag = tag
             /\ \A j \in 1 .. i - 1 : log[j].tag # tag
    ELSE 0

\* fh.read() after fh.seek(0): the bytes of the document.
FullPdf == << 0, 1, 1, 0 >>

\* sig_obj.get("/ByteRange"): absent (None), a range inside the document, a
\* range that runs past its end.
BrChoices == { << >>, << 0, 1, 2, 2 >>, << 0, 2, 3, 5 >> }

\* An embedded signature as main reads it.  readFail says where the block
\* of lines 142-147 raises: "none" (it does not), "ByteRange" (at
\* sig.sig_object or .get("/ByteRange"), before br is assigned), "Contents"
\* (at .get("/Contents") or len(contents), after br is assigned).
SigSet == [readFail : { "none", "ByteRange", "Contents" }, br : BrChoices]
SigLists == SeqsUpTo(SigSet, MaxSigs)

\* The attributes of the status object main reads through get_first_attr.
StatusSet == [valid : BOOLEAN, trusted : BOOLEAN,
              mod_level : { "NONE", "FORM_FILLING", "OTHER" }]

\* attempts, lines 60-65
Attempts == << "vc", "validation_context", "positional", "none" >>

MainInit ==
    /\ pc = "start"
    /\ log = << >>
    /\ trust_ctx = "unset"
    /\ doc = "unknown"
    /\ signatures = << >>
    /\ br_bound = FALSE
    /\ br = << >>
    /\ attempt = 1
    /\ calls = << >>
    /\ outcomes = << >>
    /\ status = << >>
    /\ err = "None"

tvVars == << attempt, calls, outcomes, status, err >>

\* lines 102-112: the log file is removed, the header is logged
Start ==
    /\ pc = "start"
    /\ log' = Append(log, L("Header"))
    /\ pc' = "trust"
    /\ UNCHANGED << trust_ctx, doc, signatures, br_bound, br, tvVars >>
    /\ UNCHANGED << digestVars, fpVars >>

\* lines 114-125: the trust context
PrepareTrust ==
    /\ pc = "trust"
    /\ \E c \in { "loaded", "missing", "error" } :
         /\ trust_ctx' = CASE c = "loaded" -> "roots"
                           [] c = "missing" -> "fetch_only"
                           [] OTHER -> "None"
         /\ log' = Append(log, CASE c = "loaded" -> L("CertLoaded")
                                 [] c = "missing" -> L("CertMissing")
                                 [] OTHER -> L("CertError"))
    /\ pc' = "check_pdf"
    /\ UNCHANGED << doc, signatures, br_bound, br, tvVars >>
    /\ UNCHANGED << digestVars, fpVars >>

\* lines 127-129
CheckPdf ==
    /\ pc = "check_pdf"
    /\ \E d \in { "missing", "unreadable", "ok" } :
         /\ doc' = d
         /\ IF d = "missing"
            THEN /\ log' = Append(log, L("NoPdf"))
                 /\ pc' = "done"
            ELSE /\ log' = log
                 /\ pc' = "open"
    /\ UNCHANGED << trust_ctx, signatures, br_bound, br, tvVars >>
    /\ UNCHANGED << digestVars, fpVars >>

\* OpenPdf without the test of line 135: signatures[0] raises on an empty list.
MutOpenPdf ==
    /\ pc = "open"
    /\ IF doc = "unreadable"
       THEN /\ pc' = "except"
            /\ UNCHANGED << log, signatures >>
       ELSE \E sigs \in SigLists :
              /\ signatures' = sigs
              /\ IF sigs = << >>
                 THEN /\ log' = log
                      /\ pc' = "except"
                 ELSE /\ log' = Append(log, LV("FieldFound", 1))
                      /\ pc' = "read_sig"
    /\ UNCHANGED << trust_ctx, doc, br_bound, br, tvVars >>
    /\ UNCHANGED << digestVars, fpVars >>

\* lines 131-140: open the file, list the signatures, take signatures[0]
OpenPdf ==
    /\ pc = "open"
    /\ IF doc = "unreadable"
       THEN /\ pc' = "except"
            /\ UNCHANGED << log, signatures >>
       ELSE \E sigs \in SigLists :
              /\ signatures' = sigs
              /\ IF sigs = << >>
                 THEN /\ log' = Append(log, L("NoSig"))
                      /\ pc' = "done"
                 ELSE /\ log' = Append(log, LV("FieldFound", 1))
                      /\ pc' = "read_sig"
    /\ UNCHANGED << trust_ctx, doc, br_bound, br, tvVars >>
    /\ UNCHANGED << digestVars, fpVars >>

\* lines 142-149: sig_object, /ByteRange and /Contents of signatures[0]
ReadSig ==
    /\ pc = "read_sig"
    /\ LET sig == signatures[1] IN
         CASE sig.readFail = "none" ->
                /\ br_bound' = TRUE
                /\ br' = sig.br
                /\ log' = log \o << L("ByteRange"), L("ContentsSize") >>
           [] sig.readFail = "ByteRange" ->
                /\ UNCHANGED << br_bound, br >>
                /\ log' = Append(log, L("ReadWarning"))
           [] OTHER ->
                /\ br_bound' = TRUE
                /\ br' = sig.br
                /\ log' = Append(log, L("ReadWarning"))
    /\ pc' = "hash"
    /\ UNCHANGED << trust_ctx, doc, signatures, tvVars >>
    /\ UNCHANGED << digestVars, fpVars >>

\* HashStep that computes the digest and does not log it.
MutHashStep ==
    /\ pc = "hash"
    /\ IF ~br_bound
       THEN /\ pc' = "except"
            /\ log' = log
       ELSE /\ pc' = "validate"
            /\ log' = IF br # << >> THEN log ELSE Append(log, L("SkipHash"))
    /\ UNCHANGED << trust_ctx, doc, signatures, br_bound, br, tvVars >>
    /\ UNCHANGED << digestVars, fpVars >>

\* lines 151-158: reading the name br raises when it was never assigned
HashStep ==
    /\ pc = "hash"
    /\ IF ~br_bound
       THEN /\ pc' = "except"
            /\ log' = log
       ELSE /\ pc' = "validate"
            /\ log' = IF br # << >>
                      THEN Append(log, LV("Hash", compute_sha256_range(FullPdf, br).digest))
                      ELSE Append(log, L("SkipHash"))
    /\ UNCHANGED << trust_ctx, doc, signatures, br_bound, br, tvVars >>
    /\ UNCHANGED << digestVars, fpVars >>

\* lines 160-162: the call of try_validation(sig, trust_ctx) begins
StartValidation ==
    /\ pc = "validate"
    /\ log' = Append(log, L("StartValidate"))
    /\ attempt' = 1
    /\ pc' = "try"
    /\ UNCHANGED << trust_ctx, doc, signatures, br_bound, br, calls, outcomes, status, err >>
    /\ UNCHANGED << digestVars, fpVars >>

\* What validate_pdf_signature may do on one call.
CallOutcomes ==
    { [kind |-> "TypeError", result |-> << >>], [kind |-> "Exception", result |-> << >>] }
    \cup { [kind |-> "return", result |-> << s >>] : s \in StatusSet }

\* TryCall whose handler of line 79 goes on to the next shape as well.
MutTryCall ==
    /\ pc = "try"
    /\ \E o \in CallOutcomes :
         /\ calls' = Append(calls, Attempts[attempt])
         /\ outcomes' = Append(outcomes, o.kind)
         /\ CASE o.kind = "return" ->
                   /\ status' = o.result
                   /\ err' = "None"
                   /\ pc' = "validated"
                   /\ UNCHANGED attempt
              [] OTHER ->
                   /\ status' = << >>
                   /\ IF attempt < Len(Attempts)
                      THEN /\ attempt' = attempt + 1
                           /\ err' = "None"
                           /\ pc' = "try"
                      ELSE /\ err' = "AllFailed"
                           /\ pc' = "validated"
                           /\ UNCHANGED attempt
    /\ UNCHANGED << log, trust_ctx, doc, signatures, br_bound, br >>
    /\ UNCHANGED << digestVars, fpVars >>

\* lines 55-81: one pass of the loop of try_validation, and its return
TryCall ==
    /\ pc = "try"
    /\ \E o \in CallOutcomes :
         /\ calls' = Append(calls, Attempts[attempt])
         /\ outcomes' = Append(outcomes, o.kind)
         /\ CASE o.kind = "return" ->
                   /\ status' = o.result
                   /\ err' = "None"
                   /\ pc' = "validated"
                   /\ UNCHANGED attempt
              [] o.kind = "TypeError" ->
                   /\ status' = << >>
                   /\ IF attempt < Len(Attempts)
                      THEN /\ attempt' = attempt + 1
                           /\ err' = "None"
                           /\ pc' = "try"
                      ELSE /\ err' = "AllFailed"
                           /\ pc' = "validated"
                           /\ UNCHANGED attempt
              [] OTHER ->
                   /\ status' = << >>
                   /\ err' = "Error"
                   /\ pc' = "validated"
                   /\ UNCHANGED attempt
    /\ UNCHANGED << log, trust_ctx, doc, signatures, br_bound, br >>
    /\ UNCHANGED << digestVars, fpVars >>

\* lines 163-167
AfterValidation ==
    /\ pc = "validated"
    /\ LET l1 == IF err # "None" THEN Append(log, LV("ValidationError", attempt)) ELSE log
       IN  IF status = << >>
           THEN /\ log' = Append(l1, L("StatusNone"))
                /\ pc' = "done"
           ELSE /\ log' = l1
                /\ pc' = "report"
    /\ UNCHANGED << trust_ctx, doc, signatures, br_bound, br, tvVars >>
    /\ UNCHANGED << digestVars, fpVars >>

\* lines 169-191: the details and the signer (which of the alternative
\* lines is written is not modelled)
ReportSigner ==
    /\ pc = "report"
    /\ log' = log \o << L("Details"), L("SignerInfo") >>
    /\ pc' = "chain"
    /\ UNCHANGED << trust_ctx, doc, signatures, br_bound, br, tvVars >>
    /\ UNCHANGED << digestVars, fpVars >>

\* lines 193-220: chain, revocation data and signing time
ReportChain ==
    /\ pc = "chain"
    /\ LET s == status[1]
           chain == IF s.trusted THEN L("ChainTrusted")
                    ELSE IF s.valid THEN L("ChainValidNoRoot")
                    ELSE L("ChainInvalid")
       IN  log' = log \o << chain, L("Revocation"), L("SigningTime") >>
    /\ pc' = "modification"
    /\ UNCHANGED << trust_ctx, doc, signatures, br_bound, br, tvVars >>
    /\ UNCHANGED << digestVars, fpVars >>

\* lines 222-229
ReportModification ==
    /\ pc = "modification"
    /\ LET m == status[1].mod_level
       IN  log' = Append(log, IF m = "NONE" THEN L("ModNone")
                              ELSE IF m = "FORM_FILLING" THEN L("ModFormFilling")
                              ELSE L("ModChanged"))
    /\ pc' = "conclusion"
    /\ UNCHANGED << trust_ctx, doc, signatures, br_bound, br, tvVars >>
    /\ UNCHANGED << digestVars, fpVars >>

\* lines 231-236
Conclusion ==
    /\ pc = "conclusion"
    /\ log' = log \o << L("Conclusion"),
                        IF status[1].valid THEN L("VerdictValid") ELSE L("VerdictInvalid") >>
    /\ pc' = "final"
    /\ UNCHANGED << trust_ctx, doc, signatures, br_bound, br, tvVars >>
    /\ UNCHANGED << digestVars, fpVars >>

\* lines 238-239
ExceptHandler ==
    /\ pc = "except"
    /\ log' = Append(log, L("ProcessingError"))
    /\ pc' = "final"
    /\ UNCHANGED << trust_ctx, doc, signatures, br_bound, br, tvVars >>
    /\ UNCHANGED << digestVars, fpVars >>

\* line 241
Finish ==
    /\ pc = "final"
    /\ log' = Append(log, L("Finished"))
    /\ pc' = "done"
    /\ UNCHANGED << trust_ctx, doc, signatures, br_bound, br, tvVars >>
    /\ UNCHANGED << digestVars, fpVars >>

----------------------------------------------------------------------------
(* Specifications *)

Init == MainInit /\ DigestIdle /\ FpIdle

Next ==
    \/ Start
    \/ PrepareTrust
    \/ CheckPdf
    \/ OpenPdf
    \/ ReadSig
    \/ HashStep
    \/ StartValidation
    \/ TryCall
    \/ AfterValidation
    \/ ReportSigner
    \/ ReportChain
    \/ ReportModification
    \/ Conclusion
    \/ ExceptHandler
    \/ Finish

Spec == Init /\ [][Next]_vars

InitDigest == MainInit /\ DigestInit /\ FpIdle
NextDigest == DigestCall
SpecDigest == InitDigest /\ [][NextDigest]_vars

InitFp == MainInit /\ DigestIdle /\ FpInit
NextFp == FormatCall
SpecFp == InitFp /\ [][NextFp]_vars

----------------------------------------------------------------------------
(* Claims about compute_sha256_range, under SpecDigest *)

\* Every offset and length is inside the document.
InBounds(bytes, r) ==
    /\ \A i \in 1 .. 4 : r[i] >= 0
    /\ r[1] + r[2] <= Len(bytes)
    /\ r[3] + r[4] <= Len(bytes)

\* The two spans do not overlap: the second starts at or after the end of the first.
Disjoint(r) == r[1] + r[2] <= r[3]

\* documentBytes[offset1 : offset1+length1] followed by
\* documentBytes[offset2 : offset2+length2], for a range that is in bounds.
CoveredBytes(bytes, r) ==
    SubSeq(bytes, r[1] + 1, r[1] + r[2]) \o SubSeq(bytes, r[3] + 1, r[3] + r[4])

\* C2: for a ByteRange that lies within the byte string, every call of
\* compute_sha256_range returns the SHA-256 of exactly the first span followed
\* by the second span (so repeated calls agree), and the document bytes and
\* the ByteRange are as they were handed in.
Thm_C2 ==
    /\ << d_bytes, d_range >> = d_in
    /\ InBounds(d_bytes, d_range) =>
         \A i \in 1 .. Len(d_out) :
            d_out[i] = Digest(Sha256Hex(CoveredBytes(d_bytes, d_range)))

\* C2 witness: two calls were made on a range with two non-empty, in-bounds
\* spans, the first of which does not start at byte 0.
Wit_C2 ==
    /\ Len(d_out) = 2
    /\ InBounds(d_bytes, d_range)
    /\ Disjoint(d_range)
    /\ d_range[1] > 0 /\ d_range[2] > 0 /\ d_range[4] > 0

\* C3: whenever an offset or length of the ByteRange is out of the bounds of
\* the document, or the spans overlap, the digest computation fails with
\* MalformedRangeError and returns no digest.
CE_C3 ==
    ~(InBounds(d_bytes, d_range) /\ Disjoint(d_range)) =>
        \A i \in 1 .. Len(d_out) :
           /\ ~d_out[i].ok
           /\ d_out[i].error = "MalformedRangeError"

----------------------------------------------------------------------------
(* Claim about format_fp, under SpecFp *)

\* A string of hex digits, in either case, with or without ':' or ' '
\* separators, holding a whole number of bytes.
IsHexFingerprint(s) ==
    /\ \A i \in 1 .. Len(s) : s[i] \in HexChars \cup { ":", " " }
    /\ StripNonHex(s) # << >>
    /\ Len(StripNonHex(s)) % 2 = 0

\* Uppercase two-hex-digit pairs separated by single spaces.
ExpectedFp(fp) ==
    CASE fp.kind = "None" -> << "N", "/", "A" >>
      [] fp.kind = "bytes" -> JoinPairs(UpperStr(BytesHex(fp.bytes)))
      [] OTHER -> JoinPairs(UpperStr(StripNonHex(fp.str)))

\* C6: format_fp renders a fingerprint given as bytes, or as a string of hex
\* digits in either case with or without separators, as uppercase hex pairs
\* separated by single spaces; None renders as N/A.
CE_C6 ==
    (fp_out # << >> /\ (fp_in.kind = "str" => IsHexFingerprint(fp_in.str))) =>
        fp_out[1] = ExpectedFp(fp_in)

----------------------------------------------------------------------------
(* Claims about main and try_validation, under Spec *)

\* C1: for a document with k >= 1 signatures, a run that finished without a
\* processing error has examined every one of the k signatures (one
\* "signature field found" line each), whatever validation said of the first.
CE_C1 ==
    (pc = "done" /\ doc = "ok" /\ Len(signatures) >= 1 /\ ~HasLog("ProcessingError")) =>
        CountLog("FieldFound") = Len(signatures)

\* C4: the valid verdict is logged only if the signature is valid and the
\* modification level reported for it is NONE or FORM_FILLING.
CE_C4 ==
    HasLog("VerdictValid") =>
        /\ status # << >>
        /\ status[1].valid
        /\ status[1].mod_level \in { "NONE", "FORM_FILLING" }

ZeroSignatureRun == pc = "done" /\ doc = "ok" /\ signatures = << >>

\* C5 as stated: a finished run on a readable document with zero signatures
\* has logged "no signature found", attempted no validation, and logged no
\* error message and no verdict.
CE_C5 ==
    ZeroSignatureRun =>
        /\ HasLog("NoSig")
        /\ calls = << >>
        /\ ~HasLog("StartValidate")
        /\ \A t \in { "CertError", "ProcessingError", "ValidationError", "StatusNone",
                      "ReadWarning" } : ~HasLog(t)
        /\ ~HasLog("VerdictValid") /\ ~HasLog("VerdictInvalid")

\* C5 as amended: the same, where the error messages that are absent are the
\* processing, validation and read errors about the document; the
\* certificate-loading error of the trust-context step may be in the log.
Thm_C5 ==
    ZeroSignatureRun =>
        /\ HasLog("NoSig")
        /\ log[Len(log)].tag = "NoSig"
        /\ calls = << >>
        /\ ~HasLog("StartValidate")
        /\ \A t \in { "ProcessingError", "ValidationError", "StatusNone",
                      "ReadWarning" } : ~HasLog(t)
        /\ ~HasLog("VerdictValid") /\ ~HasLog("VerdictInvalid")

\* C5 witness: such a run, after the certificate failed to load.
Wit_C5 == ZeroSignatureRun /\ HasLog("NoSig") /\ HasLog("CertError")

\* C7: once the validation call has been announced or made for a signature
\* whose ByteRange was read, the recomputed digest of that ByteRange is in the
\* log, before the line that starts validation, in every later state.
Thm_C7 ==
    ((HasLog("StartValidate") \/ calls # << >>) /\ br_bound /\ br # << >>) =>
        /\ HasLog("Hash")
        /\ HasLog("StartValidate")
        /\ FirstLog("Hash") < FirstLog("StartValidate")
        /\ log[FirstLog("Hash")].val = compute_sha256_range(FullPdf, br).digest

\* C7 witness: the run has ended after the validation call raised, and the
\* digest is in the log.
Wit_C7 ==
    /\ pc = "done"
    /\ br_bound /\ br # << >>
    /\ outcomes # << >> /\ outcomes[Len(outcomes)] = "Exception"
    /\ HasLog("Hash")

\* try_validation has returned to main.
TvReturned == calls # << >> /\ pc # "try"

\* C9: the call shapes are tried in the fixed order; a later shape is tried
\* only after every earlier one raised TypeError; after the return exactly
\* one of status and error message is set: the status after a call that
\* returned, the message after another exception or four TypeErrors.
Thm_C9 ==
    /\ Len(calls) <= Len(Attempts)
    /\ calls = SubSeq(Attempts, 1, Len(calls))
    /\ Len(outcomes) = Len(calls)
    /\ \A i \in 1 .. Len(calls) - 1 : outcomes[i] = "TypeError"
    /\ pc = "try" => /\ \A i \in 1 .. Len(calls) : outcomes[i] = "TypeError"
                     /\ attempt = Len(calls) + 1
    /\ TvReturned =>
         LET last == outcomes[Len(outcomes)] IN
         /\ (status # << >>) # (err # "None")
         /\ last = "return" => (status # << >> /\ err = "None")
         /\ last = "Exception" => (status = << >> /\ err = "Error")
         /\ last = "TypeError" =>
               (Len(calls) = Len(Attempts) /\ status = << >> /\ err = "AllFailed")

\* C9 witness: all four shapes were tried and each raised TypeError.
Wit_C9 ==
    /\ TvReturned
    /\ Len(calls) = 4
    /\ \A i \in 1 .. 4 : outcomes[i] = "TypeError"
    /\ err = "AllFailed"

\* C10: a finished run in which reading the signature object, /ByteRange or
\* /Contents failed has logged the warning, then the hash or the skipped-hash
\* line, and has gone on to the validation call without a processing error.
CE_C10 ==
    (pc = "done" /\ HasLog("ReadWarning")) =>
        /\ HasLog("Hash") \/ HasLog("SkipHash")
        /\ HasLog("StartValidate")
        /\ calls # << >>
        /\ ~HasLog("ProcessingError")

====
